---- MODULE Spec2Model ----
(***************************************************************************)
(* Stocks REST API: the expiring cache (cache.py), the aggregating handler *)
(* get_stock_data (main.py), and the two source clients: the Polygon       *)
(* client (polygon_service.py) and the MarketWatch scraper with its        *)
(* market-cap parser (marketwatch_scraper.py), each seen from what         *)
(* requests.get gives it.                                                  *)
(*                                                                         *)
(* Python values: a dict is a function on the set of its keys (the empty   *)
(* dict is <<>>), Optional[x] is <<>> for None and <<x>> for a value, a    *)
(* float the handler only passes on is an integer and one the scraper     *)
(* parses is a decimal m * 10^e, a str that the code transforms character  *)
(* by character (the stock symbol, a label, a market cap) is a sequence of *)
(* one-character strings, any other str is a string.                       *)
(***************************************************************************)
EXTENDS Integers, Sequences, FiniteSets, TLC

VARIABLES
    now,            \* time.time(), in seconds since 1970-01-01 00:00:00 UTC
    advances,       \* how many times the clock has advanced
    cache,          \* TTLCache.cache: {key: (value, expiry_timestamp)}
    pc,             \* per request: where get_stock_data is suspended
    stock_symbol,   \* per request: the path parameter
    frame,          \* per request: the local variables of get_stock_data
    calls,          \* per request: the calls made to the source clients, and their returns
    outcome,        \* per request: what get_stock_data returned or raised
    heard,          \* per request: what each sub-fetch returned or raised, in order
    touched,        \* per request: the keys whose cache entry a step of it changed
    started,        \* how many requests have missed the cache (hits are not counted)
    lastOp,         \* cache API: the most recent operation and its result
    lastSet,        \* cache API: per key, the most recent set since the last clear
    tpc,            \* cache threads: the statement a thread is about to execute
    tkey,           \* cache threads: the key argument
    tlocal,         \* cache threads: the locals (value, expiry_time) of get
    tret,           \* cache threads: how the call ended
    market_cap_str,     \* parser: the raw market-cap text
    market_cap_value,   \* parser: what _parse_market_cap_string returned
    page_response,      \* scraper: what requests.get gives for the MarketWatch page
    scrape_result,      \* scraper: what scrape_performance_and_competitors returned or raised
    api_response,       \* Polygon client: what requests.get gives for the API call
    api_result          \* Polygon client: what get_daily_open_close returned or raised

vars == <<now, advances, cache, pc, stock_symbol, frame, calls, outcome, heard,
          touched, started, lastOp, lastSet, tpc, tkey, tlocal, tret,
          market_cap_str, market_cap_value, page_response, scrape_result,
          api_response, api_result>>

reqVars == <<pc, stock_symbol, frame, calls, outcome, heard, touched, started>>
apiVars == <<lastOp, lastSet>>
thrVars == <<tpc, tkey, tlocal, tret>>
fnVars == <<market_cap_str, market_cap_value, page_response, scrape_result,
            api_response, api_result>>

-----------------------------------------------------------------------------
(* Bounds *)

MaxAdvances == 2
MaxRequests == 2
NumThreads == 2
MaxCapLen == 3
MaxRows == 2

(* Program constants *)

ttl_seconds == 300

-----------------------------------------------------------------------------
(* Python helpers *)

None == <<>>
Some(x) == <<x>>

EmptyDict == <<>>

\* dict.get(key, default)
DictGet(d, key, default) == IF key \in DOMAIN d THEN d[key] ELSE default

\* str.upper(), character by character
UpperChar(c) ==
    CASE c = "a" -> "A"
      [] c = "b" -> "B"
      [] c = "c" -> "C"
      [] c = "k" -> "K"
      [] c = "m" -> "M"
      [] c = "t" -> "T"
      [] OTHER -> c

Upper(s) == [i \in 1..Len(s) |-> UpperChar(s[i])]

\* date.today(): the day number (days since 1970-01-01) of the clock, UTC
Today(t) == t \div 86400

\* date - timedelta(days=n)
MinusDays(d, n) == d - n

\* the proleptic Gregorian (year, month, day) of a day number
Civil(days) ==
    LET z == days + 719468
        era == z \div 146097
        doe == z - era * 146097
        yoe == (doe - doe \div 1460 + doe \div 36524 - doe \div 146096) \div 365
        doy == doe - (365 * yoe + yoe \div 4 - yoe \div 100)
        mp == (5 * doy + 2) \div 153
        d == doy - (153 * mp + 2) \div 5 + 1
        m == IF mp < 10 THEN mp + 3 ELSE mp - 9
        y == yoe + era * 400 + (IF m <= 2 THEN 1 ELSE 0)
    IN  [year |-> y, month |-> m, day |-> d]

Digit(n) ==
    CASE n = 0 -> "0" [] n = 1 -> "1" [] n = 2 -> "2" [] n = 3 -> "3"
      [] n = 4 -> "4" [] n = 5 -> "5" [] n = 6 -> "6" [] n = 7 -> "7"
      [] n = 8 -> "8" [] n = 9 -> "9"

Pad2(n) == Digit((n \div 10) % 10) \o Digit(n % 10)
Pad4(n) == Pad2(n \div 100) \o Pad2(n % 100)

\* date.strftime("%Y-%m-%d")
Strftime(d) ==
    LET c == Civil(d) IN Pad4(c.year) \o "-" \o Pad2(c.month) \o "-" \o Pad2(c.day)

-----------------------------------------------------------------------------
(* cache.py: TTLCache *)

\* TTLCache.__init__: an empty dict
TTLCache_init == <<>>

\* del self.cache[key]
DictDel(c, key) == [k \in DOMAIN c \ {key} |-> c[k]]

\* self.cache[key] = entry
DictPut(c, key, entry) == [k \in DOMAIN c \cup {key} |-> IF k = key THEN entry ELSE c[k]]

\* TTLCache.get with the expiry instant still served (<= for <)
TTLCache_get_inclusive(c, key, t) ==
    IF key \in DOMAIN c
    THEN IF t <= c[key].expiry
         THEN [cache |-> c, ret |-> Some(c[key].value)]
         ELSE [cache |-> DictDel(c, key), ret |-> None]
    ELSE [cache |-> c, ret |-> None]

\* TTLCache.get that renews the entry it serves (sliding expiry)
TTLCache_get_sliding(c, key, t) ==
    IF key \in DOMAIN c
    THEN IF t < c[key].expiry
         THEN [cache |-> DictPut(c, key, [value |-> c[key].value,
                                          expiry |-> t + ttl_seconds]),
               ret |-> Some(c[key].value)]
         ELSE [cache |-> DictDel(c, key), ret |-> None]
    ELSE [cache |-> c, ret |-> None]

\* TTLCache.get at time t: the cache afterwards and the value returned
TTLCache_get(c, key, t) ==
    IF key \in DOMAIN c
    THEN IF t < c[key].expiry
         THEN [cache |-> c, ret |-> Some(c[key].value)]
         ELSE [cache |-> DictDel(c, key), ret |-> None]
    ELSE [cache |-> c, ret |-> None]

\* TTLCache.set that forgets the TTL
TTLCache_set_noTtl(c, key, value, t) ==
    DictPut(c, key, [value |-> value, expiry |-> t])

\* TTLCache.set that writes into the entry already there, field by field, and
\* keeps the stock_values it finds
TTLCache_set_mergeOld(c, key, value, t) ==
    IF key \in DOMAIN c
    THEN DictPut(c, key, [value |-> [value EXCEPT !.stock_values = c[key].value.stock_values],
                          expiry |-> t + ttl_seconds])
    ELSE DictPut(c, key, [value |-> value, expiry |-> t + ttl_seconds])

\* TTLCache.set at time t: the cache afterwards
TTLCache_set(c, key, value, t) ==
    DictPut(c, key, [value |-> value, expiry |-> t + ttl_seconds])

\* TTLCache.clear
TTLCache_clear == <<>>

-----------------------------------------------------------------------------
(* cache.py: TTLCache called directly, one operation at a time *)

\* the keys and the (opaque) values of the direct calls
Keys == { <<"A", "B">>, <<"C">> }
Values == { "v1", "v2" }

NoOp == [op |-> "none", key |-> <<>>, ret |-> None, at |-> 0]

\* TTLCache.get(key)
Get(key) ==
    LET got == TTLCache_get(cache, key, now)
    IN  /\ cache' = got.cache
        /\ lastOp' = [op |-> "get", key |-> key, ret |-> got.ret, at |-> now]
        /\ UNCHANGED lastSet

\* TTLCache.set(key, value)
Set(key, value) ==
    /\ cache' = TTLCache_set(cache, key, value, now)
    /\ lastOp' = [op |-> "set", key |-> key, ret |-> None, at |-> now]
    /\ lastSet' = DictPut(lastSet, key, [value |-> value, at |-> now])

\* TTLCache.clear()
Clear ==
    /\ cache' = TTLCache_clear
    /\ lastOp' = [op |-> "clear", key |-> <<>>, ret |-> None, at |-> now]
    /\ lastSet' = <<>>

-----------------------------------------------------------------------------
(* cache.py: TTLCache called from several threads, one statement at a time *)

Threads == 1..NumThreads

NoLocal == [value |-> "", expiry_time |-> 0]
NoReturn == [kind |-> "none", value |-> None]

Goto(t, label) == tpc' = [tpc EXCEPT ![t] = label]
Return(t, v) == tret' = [tret EXCEPT ![t] = [kind |-> "return", value |-> v]]
RaiseKeyError(t) == tret' = [tret EXCEPT ![t] = [kind |-> "KeyError", value |-> None]]

\* a thread calls get(key), set(key, value) or clear()
ThreadCalls(t, op, key, value) ==
    /\ tpc[t] = "idle"
    /\ Goto(t, op)
    /\ tkey' = [tkey EXCEPT ![t] = key]
    /\ tlocal' = [tlocal EXCEPT ![t] = [value |-> value, expiry_time |-> 0]]
    /\ UNCHANGED <<cache, tret>>

\* line 10: if key in self.cache; line 17: return None
GetLine10(t) ==
    /\ tpc[t] = "get"
    /\ IF tkey[t] \in DOMAIN cache
       THEN Goto(t, "get_11") /\ UNCHANGED tret
       ELSE Goto(t, "done") /\ Return(t, None)
    /\ UNCHANGED <<cache, tkey, tlocal>>

\* line 11: value, expiry_time = self.cache[key]
GetLine11(t) ==
    /\ tpc[t] = "get_11"
    /\ IF tkey[t] \in DOMAIN cache
       THEN /\ Goto(t, "get_12")
            /\ tlocal' = [tlocal EXCEPT ![t] = [value |-> cache[tkey[t]].value,
                                                 expiry_time |-> cache[tkey[t]].expiry]]
            /\ UNCHANGED tret
       ELSE Goto(t, "done") /\ RaiseKeyError(t) /\ UNCHANGED tlocal
    /\ UNCHANGED <<cache, tkey>>

\* lines 12-13: if time.time() < expiry_time: return value
GetLine12(t) ==
    /\ tpc[t] = "get_12"
    /\ IF now < tlocal[t].expiry_time
       THEN Goto(t, "done") /\ Return(t, Some(tlocal[t].value))
       ELSE Goto(t, "get_16") /\ UNCHANGED tret
    /\ UNCHANGED <<cache, tkey, tlocal>>

\* lines 16-17: del self.cache[key]; return None
GetLine16(t) ==
    /\ tpc[t] = "get_16"
    /\ Goto(t, "done")
    /\ IF tkey[t] \in DOMAIN cache
       THEN cache' = DictDel(cache, tkey[t]) /\ Return(t, None)
       ELSE RaiseKeyError(t) /\ UNCHANGED cache
    /\ UNCHANGED <<tkey, tlocal>>

\* line 21: expiry_time = time.time() + self.ttl_seconds
SetLine21(t) ==
    /\ tpc[t] = "set"
    /\ Goto(t, "set_22")
    /\ tlocal' = [tlocal EXCEPT ![t].expiry_time = now + ttl_seconds]
    /\ UNCHANGED <<cache, tkey, tret>>

\* line 22: self.cache[key] = (value, expiry_time)
SetLine22(t) ==
    /\ tpc[t] = "set_22"
    /\ Goto(t, "done")
    /\ cache' = DictPut(cache, tkey[t], [value |-> tlocal[t].value,
                                         expiry |-> tlocal[t].expiry_time])
    /\ Return(t, None)
    /\ UNCHANGED <<tkey, tlocal>>

\* line 25: self.cache = {}
ClearLine25(t) ==
    /\ tpc[t] = "clear"
    /\ Goto(t, "done")
    /\ cache' = TTLCache_clear
    /\ Return(t, None)
    /\ UNCHANGED <<tkey, tlocal>>

\* the caller has taken the result
ThreadDone(t) ==
    /\ tpc[t] = "done"
    /\ Goto(t, "idle")
    /\ tkey' = [tkey EXCEPT ![t] = <<>>]
    /\ tlocal' = [tlocal EXCEPT ![t] = NoLocal]
    /\ tret' = [tret EXCEPT ![t] = NoReturn]
    /\ UNCHANGED cache

-----------------------------------------------------------------------------
(* What the source clients hand to get_stock_data *)

Returns(v) == [kind |-> "return", value |-> v]
HTTPException(code, detail) == [kind |-> "HTTPException", status_code |-> code, detail |-> detail]
OtherException(msg) == [kind |-> "Exception", status_code |-> 0, detail |-> msg]

\* PerformanceData(): five optional floats, all None
PerformanceData_init ==
    [five_days |-> None, one_month |-> None, three_months |-> None,
     year_to_date |-> None, one_year |-> None]

\* StockValues(open, high, low, close)
StockValues(o, h, l, c) == [open |-> o, high |-> h, low |-> l, close |-> c]

Competitor(name, currency, value) ==
    [name |-> name, market_cap |-> [currency |-> currency, value |-> value]]

\* polygon_service.get_daily_open_close: a dict (empty when the provider has no
\* data for the date), or an exception
QuoteOutcomes ==
    { Returns(EmptyDict),
      Returns([status |-> "OK", open |-> 130, high |-> 132, low |-> 129, close |-> 131]),
      Returns([status |-> "OK", high |-> 132, low |-> 129, close |-> 131]),
      HTTPException(404, "Not found"),
      OtherException("'list' object has no attribute 'get'") }

\* polygon_service.get_company_details: the "results" dict, or an exception
ProfileOutcomes ==
    { Returns(EmptyDict),
      Returns([ticker |-> "AB", name |-> "Apple Inc."]),
      Returns([ticker |-> "AB"]),
      Returns([ticker |-> "AB", name |-> ""]),
      HTTPException(504, "Polygon.io API request timed out."),
      OtherException("'list' object has no attribute 'get'") }

\* marketwatch_scraper.scrape_performance_and_competitors: a dict, or an exception
ScrapeOutcomes ==
    { Returns(EmptyDict),
      Returns([performance_data |-> PerformanceData_init, competitors |-> <<>>]),
      Returns([performance_data |->
                  [five_days |-> Some(1), one_month |-> Some(5), three_months |-> None,
                   year_to_date |-> Some(15), one_year |-> Some(20)],
               competitors |-> << Competitor("Microsoft Corp.", "USD", 2000),
                                  Competitor("Alphabet Inc.", "USD", 1800) >>]),
      HTTPException(503, "MarketWatch down"),
      OtherException("unexpected") }

\* the path parameters requested
Symbols == { <<"a", "b">>, <<"A", "B">>, <<"c">> }

\* the clock reading the service starts at: 2024-03-01 23:55:00 UTC, five minutes
\* before the date changes
StartTime == 1709337300

-----------------------------------------------------------------------------
(* marketwatch_scraper.py: _parse_market_cap_string *)

(* A float is kept as a decimal m * 10^e with m not a multiple of ten (0 is    *)
(* m = 0, e = 0), so that equal numbers are equal records and 10^12 needs no   *)
(* wide integer. Binary rounding is not modelled.                              *)
RECURSIVE Norm(_, _)
Norm(m, e) ==
    IF m = 0 THEN [m |-> 0, e |-> 0]
    ELSE IF m % 10 = 0 THEN Norm(m \div 10, e + 1)
    ELSE [m |-> m, e |-> e]

\* value * 10^k
Scale(x, k) == Norm(x.m, x.e + k)

IsDigit(c) == c \in {"0", "1", "2", "3", "4", "5", "6", "7", "8", "9"}

DigitVal(c) == CHOOSE n \in 0..9 : Digit(n) = c

\* int() of a string of digits ("" counts as 0)
RECURSIVE IntOf(_)
IntOf(ds) ==
    IF ds = <<>> THEN 0
    ELSE IntOf(SubSeq(ds, 1, Len(ds) - 1)) * 10 + DigitVal(ds[Len(ds)])

\* float(text) for a text of digits, periods and minus signs: Some(number), or
\* None where Python raises ValueError (no digit, a second period, a sign that
\* is not in front)
Float(text) ==
    LET neg == text # <<>> /\ text[1] = "-"
        body == IF neg THEN Tail(text) ELSE text
        dots == { i \in 1..Len(body) : body[i] = "." }
        digs == SelectSeq(body, IsDigit)
        frac == IF dots = {} THEN 0 ELSE Len(body) - (CHOOSE i \in dots : TRUE)
    IN  IF /\ \A i \in 1..Len(body) : IsDigit(body[i]) \/ body[i] = "."
           /\ Cardinality(dots) <= 1
           /\ digs # <<>>
        THEN Some(Norm((IF neg THEN -1 ELSE 1) * IntOf(digs), -frac))
        ELSE None

\* line 58: the characters re.sub(r'[^\dBMKTbmkt.]', '', ...) keeps
KeptChar(c) == IsDigit(c) \/ c \in {"B", "M", "K", "T", "b", "m", "k", "t", "."}

\* line 62: the length of group 1 of re.match(r'(\d[\d.]*)([BMKT])?', s): a digit,
\* then the longest run of digits and periods; 0 when s does not start with a digit
RECURSIVE RunLen(_)
RunLen(s) ==
    IF s # <<>> /\ (IsDigit(s[1]) \/ s[1] = ".") THEN 1 + RunLen(Tail(s)) ELSE 0

MatchLen(s) == IF s # <<>> /\ IsDigit(s[1]) THEN 1 + RunLen(Tail(s)) ELSE 0

\* lines 79-88: the power of ten of the unit letter
UnitExp(unit) ==
    CASE unit = Some("B") -> 9
      [] unit = Some("M") -> 6
      [] unit = Some("T") -> 12
      [] unit = Some("K") -> 3
      [] OTHER -> 0

\* the parser without .upper(): a lower-case unit letter is no unit
parse_market_cap_string_caseSensitive(str) ==
    IF str = <<>> THEN None
    ELSE
    LET cleaned_str == SelectSeq(str, KeptChar)
        n == MatchLen(cleaned_str)
        numerical_part_str == SubSeq(cleaned_str, 1, n)
        unit == IF n < Len(cleaned_str) /\ cleaned_str[n + 1] \in {"B", "M", "K", "T"}
                THEN Some(cleaned_str[n + 1]) ELSE None
        value == Float(numerical_part_str)
    IN  IF n = 0 THEN None
        ELSE IF numerical_part_str = <<>> \/ numerical_part_str = <<".">> THEN None
        ELSE IF value = None THEN None
        ELSE Some(Scale(value[1], UnitExp(unit)))

\* lines 52-91: Some(number), or None for a text that does not parse
parse_market_cap_string(str) ==
    IF str = <<>> THEN None
    ELSE
    LET cleaned_str == Upper(SelectSeq(str, KeptChar))
        n == MatchLen(cleaned_str)
        numerical_part_str == SubSeq(cleaned_str, 1, n)
        unit == IF n < Len(cleaned_str) /\ cleaned_str[n + 1] \in {"B", "M", "K", "T"}
                THEN Some(cleaned_str[n + 1]) ELSE None
        value == Float(numerical_part_str)
    IN  IF n = 0 THEN None
        ELSE IF numerical_part_str = <<>> \/ numerical_part_str = <<".">> THEN None
        ELSE IF value = None THEN None
        ELSE Some(Scale(value[1], UnitExp(unit)))

\* the characters of the raw market-cap texts: digits, the period, unit letters in
\* both cases, the comma, the space, currency glyphs and another letter
CapAlphabet == {"0", "1", "2", ".", "B", "b", "M", "k", "T", ",", " ", "$", "yen", "x"}

\* every text of at most n characters over alphabet A
RECURSIVE Texts(_, _)
Texts(A, n) ==
    IF n = 0 THEN { <<>> }
    ELSE LET shorter == Texts(A, n - 1)
         IN  shorter \cup { Append(t, c) : t \in { u \in shorter : Len(u) = n - 1 }, c \in A }

\* the texts of the specification's examples
CapExamples ==
    { <<"1", ".", "2", "3", "B">>, <<"4", "5", ".", "6", "M">>, <<"9", "0", "0">>,
      <<"2", "b">>, <<>>, <<".">>, <<"$", "1", ",", "2", "0", "0", ".", "5", " ", "T">> }

NotCalled == [kind |-> "none"]

\* a caller hands a text to the parser
ParseMarketCap ==
    /\ market_cap_value = NotCalled
    /\ market_cap_value' = [kind |-> "return", value |-> parse_market_cap_string(market_cap_str)]
    /\ UNCHANGED <<now, advances, cache, reqVars, apiVars, thrVars, market_cap_str,
                   page_response, scrape_result, api_response, api_result>>

-----------------------------------------------------------------------------
(* marketwatch_scraper.py: the page, as BeautifulSoup's queries see it *)

(* A section of the page is what the three queries of lines 109-116 (158-164)   *)
(* find: found = "none" (no <span class="label"> with the section's name),      *)
(* "span" (the span has no <header class="header--secondary"> above it),        *)
(* "header" (the header has no following <table>), "table" (the table) and,     *)
(* for the competitors, "tbody" (the table has a <tbody class="table__body">);  *)
(* rows are the <tr class="table__row"> of the table (of the tbody).            *)
Section(found, rows) == [found |-> found, rows |-> rows]

\* a <td class="table__cell"> of a performance row: its text, and the text of the
\* <li> of class content__item or value inside its <ul>, None without one
Cell(text, value_tag) == [text |-> text, value_tag |-> value_tag]

\* a competitor row: the text of its <td class="table__cell w50"> and of its
\* <td class="table__cell w25 number">, None for a cell that is not there
CompetitorRow(name_tag, market_cap_tag) ==
    [name_tag |-> name_tag, market_cap_tag |-> market_cap_tag]

\* str.lower(), character by character
LowerChar(c) ==
    CASE c = "D" -> "d" [] c = "M" -> "m" [] c = "Y" -> "y" [] c = "T" -> "t"
      [] c = "V" -> "v" [] OTHER -> c

Lower(text) == [i \in 1..Len(text) |-> LowerChar(text[i])]

\* str.replace(old, new) for a one-character old; new is a text, <<>> to delete
RECURSIVE Replace(_, _, _)
Replace(text, old, new) ==
    IF text = <<>> THEN <<>>
    ELSE (IF text[1] = old THEN new ELSE <<text[1]>>) \o Replace(Tail(text), old, new)

IsSpace(c) == c \in {" ", "\t", "\n"}

\* get_text(strip=True): leading and trailing whitespace removed
RECURSIVE LStrip(_)
LStrip(text) == IF text # <<>> /\ IsSpace(text[1]) THEN LStrip(Tail(text)) ELSE text

RECURSIVE RStrip(_)
RStrip(text) ==
    IF text # <<>> /\ IsSpace(text[Len(text)])
    THEN RStrip(SubSeq(text, 1, Len(text) - 1)) ELSE text

Strip(text) == LStrip(RStrip(text))

\* fragment in text
Contains(text, fragment) ==
    \E i \in 0..(Len(text) - Len(fragment)) :
        SubSeq(text, i + 1, i + Len(fragment)) = fragment

\* the label with every whitespace character, hyphen and period made an underscore
NormalizeLabel_allToUnderscore(text) ==
    LET lowered == Lower(Strip(text))
    IN  [i \in 1..Len(lowered) |->
            IF IsSpace(lowered[i]) \/ lowered[i] \in {"-", "."} THEN "_" ELSE lowered[i]]

\* line 125: .lower().replace(' ', '_').replace('-', '_').replace('.', '')
NormalizeLabel(text) ==
    Replace(Replace(Replace(Lower(Strip(text)), " ", <<"_">>), "-", <<"_">>), ".", <<>>)

\* lines 124-151: one row of the performance table
PerformanceRow(performance_data, row) ==
    IF Len(row) # 2 THEN performance_data
    ELSE
    LET label_text == NormalizeLabel(row[1].text)
        value_tag == row[2].value_tag
    IN  IF value_tag = None THEN performance_data
        ELSE
        LET value_text == Replace(Strip(value_tag[1]), "%", <<>>)
            float_value == Float(value_text)
        IN  IF float_value = None THEN performance_data
            ELSE IF Contains(label_text, <<"5", "_", "d", "a", "y">>)
                 THEN [performance_data EXCEPT !.five_days = float_value]
            ELSE IF Contains(label_text, <<"1", "_", "m", "o", "n", "t", "h">>)
                 THEN [performance_data EXCEPT !.one_month = float_value]
            ELSE IF Contains(label_text, <<"3", "_", "m", "o", "n", "t", "h">>)
                 THEN [performance_data EXCEPT !.three_months = float_value]
            ELSE IF Contains(label_text, <<"y", "t", "d">>)
                 THEN [performance_data EXCEPT !.year_to_date = float_value]
            ELSE IF Contains(label_text, <<"1", "_", "y", "e", "a", "r">>)
                 THEN [performance_data EXCEPT !.one_year = float_value]
            ELSE performance_data

\* lines 122-151: the loop over the rows, from the first
RECURSIVE PerformanceRows(_, _)
PerformanceRows(performance_data, rows) ==
    IF rows = <<>> THEN performance_data
    ELSE PerformanceRows(PerformanceRow(performance_data, rows[1]), Tail(rows))

\* lines 98, 109-153
ExtractPerformance(section) ==
    IF section.found = "table"
    THEN PerformanceRows(PerformanceData_init, section.rows)
    ELSE PerformanceData_init

\* lines 183-187
Currency(cap_str) ==
    IF \E i \in 1..Len(cap_str) : cap_str[i] = "yen" THEN "JPY"
    ELSE IF \E i \in 1..Len(cap_str) : cap_str[i] = "won" THEN "KRW"
    ELSE "USD"

\* the loop that gives up at the first row whose market cap does not parse
RECURSIVE CompetitorRows_stopAtBadRow(_, _)
CompetitorRows_stopAtBadRow(competitors, rows) ==
    IF rows = <<>> THEN competitors
    ELSE
    LET row == rows[1]
    IN  IF row.name_tag # None /\ row.market_cap_tag # None
        THEN LET name == row.name_tag[1]
                 cap_str == Strip(row.market_cap_tag[1])
                 cap_value == parse_market_cap_string(cap_str)
             IN  IF cap_value # None
                 THEN CompetitorRows_stopAtBadRow(
                          Append(competitors,
                                 Competitor(name, Currency(cap_str), cap_value[1])),
                          Tail(rows))
                 ELSE competitors
        ELSE CompetitorRows_stopAtBadRow(competitors, Tail(rows))

\* lines 173-201: the loop over the rows of the body, from the first
RECURSIVE CompetitorRows(_, _)
CompetitorRows(competitors, rows) ==
    IF rows = <<>> THEN competitors
    ELSE
    LET row == rows[1]
    IN  IF row.name_tag # None /\ row.market_cap_tag # None
        THEN LET name == row.name_tag[1]
                 cap_str == Strip(row.market_cap_tag[1])
                 cap_value == parse_market_cap_string(cap_str)
             IN  IF cap_value # None
                 THEN CompetitorRows(
                          Append(competitors,
                                 Competitor(name, Currency(cap_str), cap_value[1])),
                          Tail(rows))
                 ELSE CompetitorRows(competitors, Tail(rows))
        ELSE CompetitorRows(competitors, Tail(rows))

\* lines 99, 158-205
ExtractCompetitors(section) ==
    IF section.found = "tbody" THEN CompetitorRows(<<>>, section.rows) ELSE <<>>

-----------------------------------------------------------------------------
(* What requests.get gives, and the except clauses that sort it *)

\* a response with a status code and a body
HttpResponse(status_code, body) ==
    [kind |-> "response", status_code |-> status_code, body |-> body]

\* requests.get raises an exception of class exc
Raises(exc) == [kind |-> "raise", exc |-> exc]

\* an HTML body that BeautifulSoup parses, seen through its two sections
Page(performance, competitors) ==
    [kind |-> "page", performance |-> performance, competitors |-> competitors]

\* a body on which the parser itself raises
RejectedMarkup == [kind |-> "rejected"]

\* the classes an exception is an instance of (requests.exceptions: ConnectTimeout
\* derives from both ConnectionError and Timeout)
Bases(exc) ==
    CASE exc = "HTTPError" -> {"HTTPError", "RequestException", "Exception"}
      [] exc = "ConnectionError" -> {"ConnectionError", "RequestException", "Exception"}
      [] exc = "ConnectTimeout" ->
             {"ConnectTimeout", "ConnectionError", "Timeout", "RequestException", "Exception"}
      [] exc = "ReadTimeout" -> {"ReadTimeout", "Timeout", "RequestException", "Exception"}
      [] exc = "TooManyRedirects" -> {"TooManyRedirects", "RequestException", "Exception"}
      [] OTHER -> {exc, "Exception"}

\* the first except clause, in the order written, that catches exc; "" when none does
Catches(clauses, exc) ==
    LET hits == { i \in 1..Len(clauses) : clauses[i] \in Bases(exc) }
    IN  IF hits = {} THEN ""
        ELSE clauses[CHOOSE i \in hits : \A j \in hits : i <= j]

\* str(e)
ExcMessage(exc, status_code) ==
    CASE exc = "HTTPError" ->
             Digit(status_code \div 100) \o Pad2(status_code % 100)
             \o (IF status_code < 500 THEN " Client Error" ELSE " Server Error")
      [] exc = "TooManyRedirects" -> "Exceeded 30 redirects."
      [] exc = "ParserRejectedMarkup" -> "The markup you provided was rejected by the parser."
      [] OTHER -> exc

\* "".join(text)
RECURSIVE Join(_)
Join(text) == IF text = <<>> THEN "" ELSE text[1] \o Join(Tail(text))

\* what the try block of lines 101-205 raises, None when it runs to its end:
\* requests.get raises, raise_for_status raises for a status of 400 or more,
\* BeautifulSoup raises
ScrapeRaised(resp) ==
    IF resp.kind = "raise" THEN Some(resp.exc)
    ELSE IF resp.status_code >= 400 THEN Some("HTTPError")
    ELSE IF resp.body.kind = "rejected" THEN Some("ParserRejectedMarkup")
    ELSE None

\* lines 208-232: the except clauses
ScrapeExcept(symbol, resp, exc) ==
    LET clause == Catches(<<"HTTPError", "ConnectionError", "Timeout",
                            "RequestException", "Exception">>, exc)
    IN  CASE clause = "HTTPError" ->
                 IF resp.status_code = 401
                 THEN HTTPException(401, "MarketWatch scraping failed: 401 Unauthorized. Ensure a valid MARKETWATCH_COOKIE is set.")
                 ELSE IF resp.status_code = 404
                 THEN HTTPException(404, "MarketWatch page not found for " \o Join(symbol) \o ".")
                 ELSE HTTPException(resp.status_code,
                                    "MarketWatch HTTP error: " \o ExcMessage(exc, resp.status_code))
          [] clause = "ConnectionError" ->
                 HTTPException(503, "Could not connect to MarketWatch.")
          [] clause = "Timeout" ->
                 HTTPException(504, "MarketWatch scraping timed out.")
          [] clause = "RequestException" ->
                 HTTPException(500, "An error occurred with MarketWatch scraping: "
                                    \o ExcMessage(exc, 0))
          [] OTHER ->
                 HTTPException(500, "An error occurred while parsing MarketWatch data: "
                                    \o ExcMessage(exc, 0))

\* the scraper that gives up on the competitors when there is no performance table
scrape_performance_and_competitors_needsBoth(symbol, resp) ==
    IF ScrapeRaised(resp) # None
    THEN ScrapeExcept(symbol, resp, ScrapeRaised(resp)[1])
    ELSE IF resp.body.performance.found # "table"
    THEN Returns([performance_data |-> PerformanceData_init, competitors |-> <<>>])
    ELSE Returns([performance_data |-> ExtractPerformance(resp.body.performance),
                  competitors |-> ExtractCompetitors(resp.body.competitors)])

\* the scraper that returns {} when the page gave nothing
scrape_performance_and_competitors_emptyWhenNothing(symbol, resp) ==
    IF ScrapeRaised(resp) # None
    THEN ScrapeExcept(symbol, resp, ScrapeRaised(resp)[1])
    ELSE LET performance_data == ExtractPerformance(resp.body.performance)
             competitors == ExtractCompetitors(resp.body.competitors)
         IN  IF performance_data = PerformanceData_init /\ competitors = <<>>
             THEN Returns(EmptyDict)
             ELSE Returns([performance_data |-> performance_data,
                           competitors |-> competitors])

\* lines 93-237: what the scraper returns or raises for what requests.get gave
scrape_performance_and_competitors(symbol, resp) ==
    IF ScrapeRaised(resp) # None
    THEN ScrapeExcept(symbol, resp, ScrapeRaised(resp)[1])
    ELSE Returns([performance_data |-> ExtractPerformance(resp.body.performance),
                  competitors |-> ExtractCompetitors(resp.body.competitors)])

\* the labels of the performance rows
PerfLabels ==
    { <<"5", " ", "D", "a", "y">>,
      <<"1", "-", "M", "o", "n", "t", "h">>,
      <<" ", "3", " ", "M", "o", "n", "t", "h", "s">>,
      <<"Y", ".", "T", ".", "D">>,
      <<"1", ".", "Y", "e", "a", "r">>,
      <<"1", "\t", "Y", "e", "a", "r">>,
      <<"V", "o", "l">> }

\* the value elements of the performance rows
PerfValueTags ==
    { None, Some(<<"-", "3", ".", "4", "%">>), Some(<<"N", "/", "A">>) }

\* the rows of a performance table: label and value, and rows of one and three cells
PerfRows ==
    { << Cell(l, None), Cell(<<>>, v) >> : l \in PerfLabels, v \in PerfValueTags }
    \cup { << Cell(<<"5", " ", "D", "a", "y">>, Some(<<"9">>)) >>,
           << Cell(<<"Y", "T", "D">>, None), Cell(<<>>, Some(<<"7">>)), Cell(<<>>, None) >> }

\* the market-cap cells of the competitor rows
CapTexts ==
    { <<"$", "2", ".", "5", "T">>, <<"yen", "3", "0", "0", "B">>,
      <<" ", "won", "4", "5", ".", "6", "M">>, <<"N", "/", "A">>, <<>> }

CompRows ==
    { CompetitorRow(Some(n), Some(c)) : n \in {"Microsoft Corp.", "Sony Group"}, c \in CapTexts }
    \cup { CompetitorRow(None, Some(<<"$", "2", ".", "5", "T">>)),
           CompetitorRow(Some("Alphabet Inc."), None) }

\* every performance section and every competitors section of at most n rows
PerfSections(n) ==
    { Section(f, <<>>) : f \in {"none", "span", "header"} }
    \cup { Section("table", rows) : rows \in Texts(PerfRows, n) }

CompSections(n) ==
    { Section(f, <<>>) : f \in {"none", "span", "header", "table"} }
    \cup { Section("tbody", rows) : rows \in Texts(CompRows, n) }

\* a few sections to go with every section of the other kind
SomePerfSections ==
    { Section("none", <<>>), Section("header", <<>>),
      Section("table", << << Cell(<<"5", " ", "D", "a", "y">>, None),
                             Cell(<<>>, Some(<<"1", ".", "2", "5", "%">>)) >>,
                          << Cell(<<"Y", "T", "D">>, None),
                             Cell(<<>>, Some(<<"N", "/", "A">>)) >> >>) }

SomeCompSections ==
    { Section("none", <<>>), Section("table", <<>>),
      Section("tbody", << CompetitorRow(Some("Microsoft Corp."), Some(<<"$", "2", ".", "5", "T">>)),
                          CompetitorRow(Some("Sony Group"), Some(<<"N", "/", "A">>)) >>) }

Pages(n) ==
    { Page(p, c) : p \in PerfSections(n), c \in SomeCompSections }
    \cup { Page(p, c) : p \in SomePerfSections, c \in CompSections(n) }

ErrorPage == Page(Section("none", <<>>), Section("none", <<>>))

\* what requests.get gives for the page
PageResponses(n) ==
    { HttpResponse(200, b) : b \in Pages(n) \cup {RejectedMarkup} }
    \cup { HttpResponse(code, ErrorPage) : code \in {401, 403, 404, 500} }
    \cup { Raises(e) : e \in {"ConnectionError", "ConnectTimeout", "ReadTimeout",
                              "TooManyRedirects"} }

\* main.py calls the scraper with the (uppercased) symbol
Scrape(symbol) ==
    /\ scrape_result = NotCalled
    /\ scrape_result' = [kind |-> "done", symbol |-> symbol,
                         ret |-> scrape_performance_and_competitors(symbol, page_response)]
    /\ UNCHANGED <<now, advances, cache, reqVars, apiVars, thrVars, market_cap_str,
                   market_cap_value, page_response, api_response, api_result>>

-----------------------------------------------------------------------------
(* polygon_service.py *)

\* the body of a response as response.json() sees it: not JSON at all, a JSON
\* object (a dict), or a JSON value that is not an object
InvalidJson == [kind |-> "invalid"]
JsonObject(data) == [kind |-> "object", data |-> data]
JsonArray == [kind |-> "array"]

\* data.get("status") == value
StatusIs(data, value) == "status" \in DOMAIN data /\ data["status"] = value

\* lines 15-57: _make_request, for what requests.get gave
make_request(resp) ==
    IF resp.kind = "raise"
    THEN LET clause == Catches(<<"HTTPError", "ConnectionError", "Timeout",
                                 "RequestException">>, resp.exc)
         IN  CASE clause = "ConnectionError" ->
                      HTTPException(503, "Could not connect to Polygon.io API.")
               [] clause = "Timeout" ->
                      HTTPException(504, "Polygon.io API request timed out.")
               [] clause = "RequestException" ->
                      HTTPException(500, "An error occurred with Polygon.io: "
                                         \o ExcMessage(resp.exc, 0))
               [] OTHER -> OtherException(ExcMessage(resp.exc, 0))
    ELSE IF resp.body.kind = "invalid"
    THEN HTTPException(500, "Invalid JSON response from Polygon.io.")
    ELSE IF resp.body.kind = "array"
    THEN OtherException("'list' object has no attribute 'get'")
    ELSE
    LET data == resp.body.data
    IN  IF resp.status_code >= 400
        THEN HTTPException(resp.status_code,
                           [status |-> DictGet(data, "status", "error"),
                            message |-> DictGet(data, "message", "Polygon.io API error.")])
        ELSE IF StatusIs(data, "ERROR") \/ StatusIs(data, "NOT_FOUND")
        THEN HTTPException(404,
                           [status |-> data["status"],
                            message |-> DictGet(data, "message", "Data not found or API error.")])
        ELSE IF StatusIs(data, "failed")
        THEN Returns(EmptyDict)
        ELSE Returns(data)

\* lines 59-64
get_daily_open_close(symbol, date_str, resp) == make_request(resp)

\* the JSON objects the provider sends
ApiObjects ==
    { [status |-> "OK", open |-> 130, high |-> 132, low |-> 129, close |-> 131],
      [status |-> "OK", high |-> 132, low |-> 129, close |-> 131],
      [status |-> "failed", error |-> "no data for this date"],
      [status |-> "ERROR", message |-> "Unknown API Key"],
      [status |-> "NOT_FOUND", message |-> "Data not found."],
      [status |-> "NOT_FOUND"],
      EmptyDict }

\* what requests.get gives for the API call
ApiResponses ==
    { HttpResponse(code, body) :
          code \in {200, 401, 404, 429, 502},
          body \in { JsonObject(d) : d \in ApiObjects } \cup {InvalidJson, JsonArray} }
    \cup { Raises(e) : e \in {"ConnectionError", "ConnectTimeout", "ReadTimeout",
                              "TooManyRedirects"} }

\* main.py calls the client with the (uppercased) symbol and a date
GetDailyOpenClose(symbol, date_str) ==
    /\ api_result = NotCalled
    /\ api_result' = [kind |-> "done", symbol |-> symbol, date_str |-> date_str,
                      ret |-> get_daily_open_close(symbol, date_str, api_response)]
    /\ UNCHANGED <<now, advances, cache, reqVars, apiVars, thrVars, market_cap_str,
                   market_cap_value, page_response, scrape_result, api_response>>

-----------------------------------------------------------------------------
(* main.py: get_stock_data *)

\* the requests in progress at the same time
Handlers == {1, 2}

NoOutcome == [kind |-> "none"]

Call(fn, args) == [ev |-> "call", fn |-> fn, args |-> args]
Ret(fn) == [ev |-> "return", fn |-> fn, args |-> <<>>]

\* truthiness of a dict: it has a key
TruthyDict(d) == DOMAIN d # {}

\* truthiness of a str: it is not empty
TruthyStr(s) == s # ""

\* the cache lookup's result ignored
CacheHit_ignored(ret) == FALSE

\* line 61: "if cached_stock": None is falsy, a Stock is truthy
CacheHit(ret) == ret # None

\* lines 67-70: the date string sent to get_daily_open_close
today_str(t) == Strftime(MinusDays(Today(t), 2))

\* the locals with the symbol left as it was received
InitFrame_rawSymbol(symbol, t) ==
    [symbol_upper |-> symbol,
     today |-> Today(t),
     today_str |-> today_str(t),
     company_name |-> "N/A",
     stock_values |-> StockValues(0, 0, 0, 0),
     performance_data |-> PerformanceData_init,
     competitors |-> <<>>,
     status_message |-> "Success"]

\* lines 56, 67-77: the locals on a cache miss
InitFrame(symbol, t) ==
    [symbol_upper |-> Upper(symbol),
     today |-> Today(t),
     today_str |-> today_str(t),
     company_name |-> "N/A",
     stock_values |-> StockValues(0, 0, 0, 0),
     performance_data |-> PerformanceData_init,
     competitors |-> <<>>,
     status_message |-> "Success"]

NoFrame ==
    [symbol_upper |-> <<>>, today |-> 0, today_str |-> "", company_name |-> "",
     stock_values |-> StockValues(0, 0, 0, 0), performance_data |-> PerformanceData_init,
     competitors |-> <<>>, status_message |-> ""]

\* a quote with a missing field taken as no quote at all, without a phrase
AfterQuote_allOrNothing(f, polygon_data) ==
    IF {"open", "high", "low", "close"} \subseteq DOMAIN polygon_data
    THEN [f EXCEPT !.stock_values =
              StockValues(polygon_data["open"], polygon_data["high"],
                          polygon_data["low"], polygon_data["close"])]
    ELSE IF TruthyDict(polygon_data)
         THEN f
         ELSE [f EXCEPT !.status_message = @ \o " (Polygon daily data not available)"]

\* lines 82-92
AfterQuote(f, polygon_data) ==
    IF TruthyDict(polygon_data)
    THEN [f EXCEPT !.stock_values =
              StockValues(DictGet(polygon_data, "open", 0), DictGet(polygon_data, "high", 0),
                          DictGet(polygon_data, "low", 0), DictGet(polygon_data, "close", 0))]
    ELSE [f EXCEPT !.status_message = @ \o " (Polygon daily data not available)"]

\* a missing company name that leaves no phrase in the status
AfterProfile_silent(f, company_details) ==
    IF TruthyDict(company_details) /\ TruthyStr(DictGet(company_details, "name", ""))
    THEN [f EXCEPT !.company_name = company_details["name"]]
    ELSE f

\* lines 96-101
AfterProfile(f, company_details) ==
    IF TruthyDict(company_details) /\ TruthyStr(DictGet(company_details, "name", ""))
    THEN [f EXCEPT !.company_name = company_details["name"]]
    ELSE [f EXCEPT !.status_message = @ \o " (Company name not found)"]

\* lines 105-111
AfterScrape(f, scraped_data) ==
    IF TruthyDict(scraped_data)
    THEN [f EXCEPT !.performance_data = scraped_data["performance_data"],
                   !.competitors = scraped_data["competitors"]]
    ELSE [f EXCEPT !.status_message = @ \o " (MarketWatch data not available)"]

\* lines 121-129
Stock(f, t) ==
    [status |-> f.status_message,
     request_data |-> Today(t),
     company_code |-> f.symbol_upper,
     company_name |-> f.company_name,
     stock_values |-> f.stock_values,
     performance_data |-> f.performance_data,
     competitors |-> f.competitors]

\* every exception of a sub-fetch wrapped as a 500
Reraise_wrapAll(e) ==
    [kind |-> "raise", status_code |-> 500,
     detail |-> "An internal server error occurred: " \o e.detail]

\* lines 113-118: what the handler raises for an exception of a sub-fetch
Reraise(e) ==
    IF e.kind = "HTTPException"
    THEN [kind |-> "raise", status_code |-> e.status_code, detail |-> e.detail]
    ELSE [kind |-> "raise", status_code |-> 500,
          detail |-> "An internal server error occurred: " \o e.detail]

Returned(value, from_cache) == [kind |-> "return", value |-> value, from_cache |-> from_cache]

\* the keys whose entry differs between cache c and cache c2
Changed(c, c2) ==
    { k \in DOMAIN c \cup DOMAIN c2 :
        \/ k \notin DOMAIN c
        \/ k \notin DOMAIN c2
        \/ c[k] # c2[k] }

\* the request ends by raising, after caching what it had gathered
Fails_cachingPartial(r, e) ==
    LET c2 == TTLCache_set(cache, frame[r].symbol_upper, Stock(frame[r], now), now)
    IN  /\ pc' = [pc EXCEPT ![r] = "done"]
        /\ outcome' = [outcome EXCEPT ![r] = Reraise(e)]
        /\ heard' = [heard EXCEPT ![r] = Append(@, e)]
        /\ cache' = c2
        /\ touched' = [touched EXCEPT ![r] = @ \cup Changed(cache, c2)]
        /\ UNCHANGED <<frame, calls>>

\* lines 113-118: the request ends by raising
Fails(r, e) ==
    /\ pc' = [pc EXCEPT ![r] = "done"]
    /\ outcome' = [outcome EXCEPT ![r] = Reraise(e)]
    /\ heard' = [heard EXCEPT ![r] = Append(@, e)]
    /\ UNCHANGED <<cache, frame, calls, touched>>

\* lines 56-81: the request arrives, the cache is read, and on a miss the quote is asked for
Receive(r, symbol) ==
    /\ pc[r] = "idle"
    /\ started < MaxRequests
    /\ stock_symbol' = [stock_symbol EXCEPT ![r] = symbol]
    /\ LET got == TTLCache_get(cache, Upper(symbol), now)
           f == InitFrame(symbol, now)
       IN  /\ cache' = got.cache
           /\ started' = IF CacheHit(got.ret) THEN started ELSE started + 1
           /\ touched' = [touched EXCEPT ![r] = Changed(cache, got.cache)]
           /\ IF CacheHit(got.ret)
              THEN /\ pc' = [pc EXCEPT ![r] = "done"]
                   /\ outcome' = [outcome EXCEPT ![r] = Returned(got.ret[1], TRUE)]
                   /\ UNCHANGED <<frame, calls>>
              ELSE /\ pc' = [pc EXCEPT ![r] = "quote"]
                   /\ frame' = [frame EXCEPT ![r] = f]
                   /\ calls' = [calls EXCEPT ![r] =
                          << Call("get_daily_open_close", <<f.symbol_upper, f.today_str>>) >>]
                   /\ UNCHANGED outcome
    /\ UNCHANGED <<now, advances, heard>>
    /\ UNCHANGED <<apiVars, thrVars, fnVars>>

\* lines 81-95: get_daily_open_close returns or raises; then the profile is asked for
QuoteReturns(r, o) ==
    /\ pc[r] = "quote"
    /\ IF o.kind = "return"
       THEN /\ pc' = [pc EXCEPT ![r] = "profile"]
            /\ frame' = [frame EXCEPT ![r] = AfterQuote(@, o.value)]
            /\ calls' = [calls EXCEPT ![r] =
                   @ \o << Ret("get_daily_open_close"),
                           Call("get_company_details", <<frame[r].symbol_upper>>) >>]
            /\ heard' = [heard EXCEPT ![r] = Append(@, o)]
            /\ UNCHANGED <<cache, outcome, touched>>
       ELSE Fails(r, o)
    /\ UNCHANGED <<now, advances, stock_symbol, started>>
    /\ UNCHANGED <<apiVars, thrVars, fnVars>>

\* lines 95-104: get_company_details returns or raises; then the scrape is asked for
ProfileReturns(r, o) ==
    /\ pc[r] = "profile"
    /\ IF o.kind = "return"
       THEN /\ pc' = [pc EXCEPT ![r] = "scrape"]
            /\ frame' = [frame EXCEPT ![r] = AfterProfile(@, o.value)]
            /\ calls' = [calls EXCEPT ![r] =
                   @ \o << Ret("get_company_details"),
                           Call("scrape_performance_and_competitors",
                                <<frame[r].symbol_upper>>) >>]
            /\ heard' = [heard EXCEPT ![r] = Append(@, o)]
            /\ UNCHANGED <<cache, outcome, touched>>
       ELSE Fails(r, o)
    /\ UNCHANGED <<now, advances, stock_symbol, started>>
    /\ UNCHANGED <<apiVars, thrVars, fnVars>>

\* lines 104-135: the scrape returns or raises; the Stock is built, cached and returned
ScrapeReturns(r, o) ==
    /\ pc[r] = "scrape"
    /\ IF o.kind = "return"
       THEN LET f == AfterScrape(frame[r], o.value)
                stock_data == Stock(f, now)
                c2 == TTLCache_set(cache, f.symbol_upper, stock_data, now)
            IN  /\ pc' = [pc EXCEPT ![r] = "done"]
                /\ frame' = [frame EXCEPT ![r] = f]
                /\ calls' = [calls EXCEPT ![r] =
                       @ \o << Ret("scrape_performance_and_competitors") >>]
                /\ cache' = c2
                /\ touched' = [touched EXCEPT ![r] = @ \cup Changed(cache, c2)]
                /\ outcome' = [outcome EXCEPT ![r] = Returned(stock_data, FALSE)]
                /\ heard' = [heard EXCEPT ![r] = Append(@, o)]
       ELSE Fails(r, o)
    /\ UNCHANGED <<now, advances, stock_symbol, started>>
    /\ UNCHANGED <<apiVars, thrVars, fnVars>>

\* the response has been sent: the handler's frame is gone
Respond(r) ==
    /\ pc[r] = "done"
    /\ pc' = [pc EXCEPT ![r] = "idle"]
    /\ stock_symbol' = [stock_symbol EXCEPT ![r] = <<>>]
    /\ frame' = [frame EXCEPT ![r] = NoFrame]
    /\ calls' = [calls EXCEPT ![r] = <<>>]
    /\ outcome' = [outcome EXCEPT ![r] = NoOutcome]
    /\ heard' = [heard EXCEPT ![r] = <<>>]
    /\ touched' = [touched EXCEPT ![r] = {}]
    /\ UNCHANGED <<now, advances, cache, started>>
    /\ UNCHANGED <<apiVars, thrVars, fnVars>>

\* time passes
Advance(d) ==
    /\ advances < MaxAdvances
    /\ advances' = advances + 1
    /\ now' = now + d
    /\ UNCHANGED <<cache, reqVars, apiVars, thrVars, fnVars>>

\* the steps of the clock: one second, and one second short of the TTL
Steps == {1, ttl_seconds - 1}

InitReq ==
    /\ pc = [r \in Handlers |-> "idle"]
    /\ stock_symbol = [r \in Handlers |-> <<>>]
    /\ frame = [r \in Handlers |-> NoFrame]
    /\ calls = [r \in Handlers |-> <<>>]
    /\ outcome = [r \in Handlers |-> NoOutcome]
    /\ heard = [r \in Handlers |-> <<>>]
    /\ touched = [r \in Handlers |-> {}]
    /\ started = 0

InitApi ==
    /\ lastOp = NoOp
    /\ lastSet = <<>>

InitThr ==
    /\ tpc = [t \in Threads |-> "idle"]
    /\ tkey = [t \in Threads |-> <<>>]
    /\ tlocal = [t \in Threads |-> NoLocal]
    /\ tret = [t \in Threads |-> NoReturn]

\* no client function has been called
InitParse ==
    /\ market_cap_str = <<>>
    /\ market_cap_value = NotCalled

InitScrape ==
    /\ page_response = NotCalled
    /\ scrape_result = NotCalled

InitApiCall ==
    /\ api_response = NotCalled
    /\ api_result = NotCalled

\* the service starts with an empty cache and no request in progress
Init ==
    /\ now = StartTime
    /\ advances = 0
    /\ cache = TTLCache_init
    /\ InitReq
    /\ InitApi
    /\ InitThr
    /\ InitParse
    /\ InitScrape
    /\ InitApiCall

\* what the source clients answer in Spec: for each, a result, a soft-empty
\* result where it changes the Stock, and an exception
SomeQuoteOutcomes ==
    { Returns(EmptyDict),
      Returns([status |-> "OK", open |-> 130, high |-> 132, low |-> 129, close |-> 131]),
      HTTPException(404, "Not found") }

SomeProfileOutcomes ==
    { Returns([ticker |-> "AB", name |-> "Apple Inc."]),
      HTTPException(504, "Polygon.io API request timed out.") }

SomeScrapeOutcomes ==
    { Returns([performance_data |-> PerformanceData_init, competitors |-> <<>>]),
      HTTPException(503, "MarketWatch down"),
      OtherException("unexpected") }

\* Spec: requests are handled concurrently; a handler may be suspended at each of
\* its three awaits while another one runs
Next ==
    \/ \E r \in Handlers, s \in Symbols : Receive(r, s)
    \/ \E r \in Handlers, o \in SomeQuoteOutcomes : QuoteReturns(r, o)
    \/ \E r \in Handlers, o \in SomeProfileOutcomes : ProfileReturns(r, o)
    \/ \E r \in Handlers, o \in SomeScrapeOutcomes : ScrapeReturns(r, o)
    \/ \E r \in Handlers : Respond(r)
    \/ \E d \in Steps : Advance(d)

Spec == Init /\ [][Next]_vars

\* SeqSpec: one request at a time (the awaited clients block, they never yield),
\* with every answer of the source clients
SeqNext ==
    \/ \E s \in Symbols : Receive(1, s)
    \/ \E o \in QuoteOutcomes : QuoteReturns(1, o)
    \/ \E o \in ProfileOutcomes : ProfileReturns(1, o)
    \/ \E o \in ScrapeOutcomes : ScrapeReturns(1, o)
    \/ Respond(1)
    \/ \E d \in Steps : Advance(d)

SeqSpec == Init /\ [][SeqNext]_vars

\* what requests.get gives for the page in RealSpec
SomePageResponses ==
    { HttpResponse(200, b) :
          b \in { Page(p, c) : p \in SomePerfSections, c \in SomeCompSections }
                \cup {RejectedMarkup} }
    \cup { HttpResponse(code, ErrorPage) : code \in {401, 404, 500} }
    \cup { Raises(e) : e \in {"ConnectionError", "ReadTimeout"} }

\* RealSpec: one request at a time, the scrape answered by the scraper itself
RealNext ==
    \/ \E s \in Symbols : Receive(1, s)
    \/ \E o \in SomeQuoteOutcomes : QuoteReturns(1, o)
    \/ \E o \in SomeProfileOutcomes \cup {Returns(EmptyDict)} : ProfileReturns(1, o)
    \/ \E resp \in SomePageResponses :
           ScrapeReturns(1, scrape_performance_and_competitors(frame[1].symbol_upper, resp))
    \/ Respond(1)
    \/ \E d \in Steps : Advance(d)

RealSpec == Init /\ [][RealNext]_vars

\* CacheSpec: the cache alone, called directly: any sequence of get, set and clear,
\* with time passing in between
CacheNext ==
    \/ \E k \in Keys : Get(k) /\ UNCHANGED <<now, advances, reqVars, thrVars, fnVars>>
    \/ \E k \in Keys, v \in Values : Set(k, v) /\ UNCHANGED <<now, advances, reqVars, thrVars, fnVars>>
    \/ Clear /\ UNCHANGED <<now, advances, reqVars, thrVars, fnVars>>
    \/ \E d \in Steps : Advance(d)

CacheSpec == Init /\ [][CacheNext]_vars

\* ThreadSpec: the cache called from threads that may be preempted between statements
ThreadStep(t) ==
    \/ \E k \in Keys : ThreadCalls(t, "get", k, "")
    \/ \E k \in Keys, v \in Values : ThreadCalls(t, "set", k, v)
    \/ ThreadCalls(t, "clear", <<>>, "")
    \/ GetLine10(t)
    \/ GetLine11(t)
    \/ GetLine12(t)
    \/ GetLine16(t)
    \/ SetLine21(t)
    \/ SetLine22(t)
    \/ ClearLine25(t)
    \/ ThreadDone(t)

ThreadNext ==
    \/ \E t \in Threads : ThreadStep(t) /\ UNCHANGED <<now, advances, reqVars, apiVars, fnVars>>
    \/ \E d \in Steps : Advance(d)

ThreadSpec == Init /\ [][ThreadNext]_vars

\* ParseSpec: the market-cap parser applied to one raw text
ParseInit ==
    /\ now = StartTime
    /\ advances = 0
    /\ cache = TTLCache_init
    /\ InitReq
    /\ InitApi
    /\ InitThr
    /\ market_cap_str \in Texts(CapAlphabet, MaxCapLen) \cup CapExamples
    /\ market_cap_value = NotCalled
    /\ InitScrape
    /\ InitApiCall

ParseNext == ParseMarketCap

ParseSpec == ParseInit /\ [][ParseNext]_vars

\* ScrapeSpec: the scraper called once, on each thing requests.get can give
ScrapeInit ==
    /\ now = StartTime
    /\ advances = 0
    /\ cache = TTLCache_init
    /\ InitReq
    /\ InitApi
    /\ InitThr
    /\ InitParse
    /\ page_response \in PageResponses(MaxRows)
    /\ scrape_result = NotCalled
    /\ InitApiCall

ScrapeNext == \E symbol \in {<<"A", "B">>, <<"C">>} : Scrape(symbol)

ScrapeSpec == ScrapeInit /\ [][ScrapeNext]_vars

\* PolygonSpec: get_daily_open_close called once, on each thing requests.get can give
PolygonInit ==
    /\ now = StartTime
    /\ advances = 0
    /\ cache = TTLCache_init
    /\ InitReq
    /\ InitApi
    /\ InitThr
    /\ InitParse
    /\ InitScrape
    /\ api_response \in ApiResponses
    /\ api_result = NotCalled

PolygonNext ==
    \E symbol \in {<<"A", "B">>, <<"C">>} :
        GetDailyOpenClose(symbol, today_str(now))

PolygonSpec == PolygonInit /\ [][PolygonNext]_vars

-----------------------------------------------------------------------------
(* Properties *)

Done(r) == pc[r] = "done"
Key(r) == Upper(stock_symbol[r])
Missed(r) == Done(r) /\ outcome[r].kind = "return" /\ ~outcome[r].from_cache
Hit(r) == Done(r) /\ outcome[r].kind = "return" /\ outcome[r].from_cache
Raised(r) == Done(r) /\ outcome[r].kind = "raise"

\* the entry of key k in cache c has not expired at time t
Live(c, k, t) == k \in DOMAIN c /\ t < c[k].expiry

\* the step in which handler r receives a request for symbol s
Receives(r, s) == pc[r] = "idle" /\ pc'[r] # "idle" /\ stock_symbol'[r] = s

\* C1: a request that finds an unexpired entry for the uppercased symbol returns
\* that entry, calls no source client and leaves the cache as it was.
C1_CacheHitNoUpstreamCalls ==
    [][\A r \in Handlers, s \in Symbols :
          (Receives(r, s) /\ Live(cache, Upper(s), now)) =>
              /\ pc'[r] = "done"
              /\ outcome'[r] = Returned(cache[Upper(s)].value, TRUE)
              /\ calls'[r] = <<>>
              /\ heard'[r] = <<>>
              /\ cache' = cache]_vars

C1_Witness ==
    \E r \in Handlers : Hit(r) /\ calls[r] = <<>> /\ Live(cache, Key(r), now)

\* the exception the last sub-fetch of request r raised
Fault(r) == heard[r][Len(heard[r])]

\* the calls and returns of a request that goes through all three sub-fetches
FullLog(r) ==
    << Call("get_daily_open_close", <<Key(r), frame[r].today_str>>),
       Ret("get_daily_open_close"),
       Call("get_company_details", <<Key(r)>>),
       Ret("get_company_details"),
       Call("scrape_performance_and_competitors", <<Key(r)>>),
       Ret("scrape_performance_and_competitors") >>

C3_ErrorCachesNothing ==
    \A r \in Handlers :
        Raised(r) =>
            /\ touched[r] \subseteq {Key(r)}
            /\ Key(r) \notin DOMAIN cache

C3_Witness ==
    \E r \in Handlers :
        /\ Raised(r)
        /\ Len(heard[r]) = 3
        /\ DOMAIN cache # {}
        /\ Key(r) \notin DOMAIN cache

\* the sub-fetch results that count as soft-empty
SoftEmptyQuote(d) == DOMAIN d = {}
SoftEmptyProfile(d) == "name" \notin DOMAIN d \/ d["name"] = ""
SoftEmptyScrape(d) == DOMAIN d = {}

Expected(k, t) ==
    IF k \in DOMAIN lastSet /\ t < lastSet[k].at + ttl_seconds
    THEN Some(lastSet[k].value)
    ELSE None

\* C6: get(key) returns the value of the most recent set(key) exactly when no clear
\* came since and the time is before that set's time plus the TTL, otherwise None;
\* after a get that returned None the key has no entry; every entry is the most
\* recent set of its key with expiry = time of the set + TTL.
C6_CacheGetSemantics ==
    /\ lastOp.op = "get" =>
          /\ lastOp.ret = Expected(lastOp.key, lastOp.at)
          /\ lastOp.ret = None => lastOp.key \notin DOMAIN cache
    /\ \A k \in DOMAIN cache :
          /\ k \in DOMAIN lastSet
          /\ cache[k] = [value |-> lastSet[k].value,
                         expiry |-> lastSet[k].at + ttl_seconds]

C6_Witness ==
    /\ lastOp.op = "get"
    /\ lastOp.key \in DOMAIN lastSet
    /\ lastOp.at = lastSet[lastOp.key].at + ttl_seconds
    /\ lastOp.ret = None
    /\ lastOp.key \notin DOMAIN cache

\* C7: the step that returns a Stock built on a miss stores that Stock under the
\* uppercased symbol with expiry now + TTL; a request, in any letter case, that
\* finds the entry unexpired returns the stored Stock, whose company_code is the
\* uppercased symbol.
C7_ResultCachedUnderUpperSymbol ==
    [][\A r \in Handlers :
          /\ (pc[r] = "scrape" /\ pc'[r] = "done" /\ outcome'[r].kind = "return") =>
                /\ Key(r) \in DOMAIN cache'
                /\ cache'[Key(r)] = [value |-> outcome'[r].value,
                                     expiry |-> now + ttl_seconds]
                /\ outcome'[r].value.company_code = Key(r)
          /\ \A s \in Symbols :
                (Receives(r, s) /\ Live(cache, Upper(s), now)) =>
                    /\ outcome'[r].kind = "return"
                    /\ outcome'[r].value = cache[Upper(s)].value
                    /\ outcome'[r].value.company_code = Upper(s)]_vars

C7_Witness ==
    \E r \in Handlers :
        /\ Hit(r)
        /\ stock_symbol[r] = <<"a", "b">>
        /\ outcome[r].value.company_code = <<"A", "B">>
        /\ outcome[r].value.status = "Success (Polygon daily data not available)"

\* C8: a request that misses the cache calls get_daily_open_close,
\* get_company_details and scrape_performance_and_competitors once each, with the
\* uppercased symbol, each call made after the previous one has returned.
C8_ThreeCallsInOrder ==
    \A r \in Handlers :
        /\ pc[r] = "quote" => calls[r] = SubSeq(FullLog(r), 1, 1)
        /\ pc[r] = "profile" => calls[r] = SubSeq(FullLog(r), 1, 3)
        /\ pc[r] = "scrape" => calls[r] = SubSeq(FullLog(r), 1, 5)
        /\ Missed(r) => calls[r] = FullLog(r)

C8_Witness ==
    \E r \in Handlers :
        /\ Missed(r)
        /\ stock_symbol[r] = <<"a", "b">>
        /\ Len(calls[r]) = 6
        /\ calls[r][5] = Call("scrape_performance_and_competitors", << <<"A", "B">> >>)

\* C9: on a cache miss get_daily_open_close is called with the uppercased symbol and
\* today's date as YYYY-MM-DD, the date recorded as request_data of the result.
C9_QuoteRequestedForToday ==
    \A r \in Handlers :
        /\ calls[r] # <<>> =>
              calls[r][1] = Call("get_daily_open_close",
                                 <<Key(r), Strftime(frame[r].today)>>)
        /\ Missed(r) =>
              calls[r][1].args[2] = Strftime(outcome[r].value.request_data)

Stripped(text) ==
    SelectSeq(text, LAMBDA c : IsDigit(c) \/ c = "." \/ c \in {"B", "b", "M", "m", "K", "k", "T", "t"})

\* the numeric prefix of a stripped text: a digit, then the run of digits and periods
NumericPrefix(t) ==
    LET ends == { n \in 1..Len(t) :
                    IsDigit(t[1]) /\ \A i \in 1..n : IsDigit(t[i]) \/ t[i] = "." }
    IN  SubSeq(t, 1, Cardinality(ends))

Periods(p) == Cardinality({ i \in 1..Len(p) : p[i] = "." })

\* the digits after the period of a prefix that has one
FractionDigits(p) ==
    Cardinality({ i \in 1..Len(p) : \E j \in 1..(i - 1) : p[j] = "." })

\* the number the digits of a prefix spell, read from the left
RECURSIVE Horner(_, _)
Horner(p, acc) ==
    IF p = <<>> THEN acc
    ELSE Horner(Tail(p), IF IsDigit(p[1]) THEN 10 * acc + DigitVal(p[1]) ELSE acc)

\* the power of ten of the unit letter that directly follows the prefix
ScaleAfter(t, n) ==
    IF n >= Len(t) THEN 0
    ELSE CASE t[n + 1] \in {"K", "k"} -> 3
           [] t[n + 1] \in {"M", "m"} -> 6
           [] t[n + 1] \in {"B", "b"} -> 9
           [] t[n + 1] \in {"T", "t"} -> 12
           [] OTHER -> 0

\* prefix * 10^scale as a decimal
PrefixTimesScale(t) ==
    LET p == NumericPrefix(t)
    IN  Norm(Horner(p, 0), ScaleAfter(t, Len(p)) - FractionDigits(p))

Parsed == market_cap_value.kind = "return"

\* C11 (as stated): the parser strips every character other than digits, period and
\* unit letters, then returns numeric prefix x scale of the unit letter that directly
\* follows it (case-insensitive); it returns unparseable exactly when the numeric
\* prefix is empty or a lone period.
C11_ParsesEveryNumericPrefix ==
    Parsed =>
        LET t == Stripped(market_cap_str)
            p == NumericPrefix(t)
        IN  IF p = <<>> \/ p = <<".">>
            THEN market_cap_value.value = None
            ELSE /\ market_cap_value.value # None
                 /\ Periods(p) <= 1 => market_cap_value.value = Some(PrefixTimesScale(t))

\* C11 (amended): as stated, and the parser also returns unparseable when the
\* numeric prefix holds more than one period; "1.23B" gives 1230000000, "45.6M"
\* gives 45600000, "900" gives 900, "2b" gives 2000000000, "" and "." are
\* unparseable.
C11_ShorthandParser ==
    Parsed =>
        LET t == Stripped(market_cap_str)
            p == NumericPrefix(t)
            v == market_cap_value.value
        IN  /\ IF p = <<>> \/ Periods(p) > 1
               THEN v = None
               ELSE v = Some(PrefixTimesScale(t))
            /\ market_cap_str = <<"1", ".", "2", "3", "B">> => v = Some([m |-> 123, e |-> 7])
            /\ market_cap_str = <<"4", "5", ".", "6", "M">> => v = Some([m |-> 456, e |-> 5])
            /\ market_cap_str = <<"9", "0", "0">> => v = Some([m |-> 9, e |-> 2])
            /\ market_cap_str = <<"2", "b">> => v = Some([m |-> 2, e |-> 9])
            /\ market_cap_str \in { <<>>, <<".">> } => v = None

C11_Witness ==
    /\ Parsed
    /\ market_cap_str = <<"$", "1", ",", "2", "0", "0", ".", "5", " ", "T">>
    /\ market_cap_value.value = Some([m |-> 12005, e |-> 11])

Scraped == scrape_result.kind = "done"

\* what requests.get gave is a transport failure: an exception, or a status >= 400
TransportFailure(resp) == resp.kind = "raise" \/ resp.status_code >= 400

\* C12: the scraper maps every transport outcome to one typed error and never to a
\* result: HTTP 401 gives 401, HTTP 404 gives 404, any other status >= 400 gives
\* an error with that status code, a connection failure gives 503, every timeout,
\* while connecting or while reading, gives 504, and an exception raised while
\* extracting a 2xx body gives a 500 that no transport outcome gives.
C12_TransportErrorMapping ==
    Scraped =>
        LET resp == page_response
            o == scrape_result.ret
        IN  /\ TransportFailure(resp) => o.kind = "HTTPException"
            /\ (resp.kind = "response" /\ resp.status_code >= 400) =>
                   o.status_code = resp.status_code
            /\ resp = Raises("ConnectionError") => o.status_code = 503
            /\ resp \in {Raises("ConnectTimeout"), Raises("ReadTimeout")} =>
                   o.status_code = 504
            /\ (resp.kind = "response" /\ resp.status_code < 400
                  /\ resp.body.kind = "rejected") =>
                   /\ o.kind = "HTTPException"
                   /\ o.status_code = 500
                   /\ \A t \in PageResponses(0), sym \in {<<"A", "B">>, <<"C">>} :
                          TransportFailure(t) =>
                              scrape_performance_and_competitors(sym, t) # o

Fetched == api_result.kind = "done"

\* the provider reports the soft failure "no data for this date"
ReportsNoData(resp) ==
    /\ resp.kind = "response"
    /\ resp.status_code < 400
    /\ resp.body.kind = "object"
    /\ StatusIs(resp.body.data, "failed")

\* a transport-level or malformed-response condition: invalid JSON, a status >= 400,
\* the provider status ERROR or NOT_FOUND, a connection failure, a timeout
HardCondition(resp) ==
    \/ resp \in {Raises("ConnectionError"), Raises("ConnectTimeout"), Raises("ReadTimeout")}
    \/ /\ resp.kind = "response"
       /\ \/ resp.body.kind = "invalid"
          \/ resp.status_code >= 400
          \/ /\ resp.body.kind = "object"
             /\ StatusIs(resp.body.data, "ERROR") \/ StatusIs(resp.body.data, "NOT_FOUND")

\* C13: get_daily_open_close returns an empty result whenever the provider reports
\* "no data for this date" and in no other case; every transport-level or
\* malformed-response condition raises a typed error, carrying the upstream HTTP
\* status where there is one, and yields no result, empty or populated.
C13_EmptyOnlyOnNoData ==
    Fetched =>
        LET resp == api_response
            o == api_result.ret
        IN  /\ ReportsNoData(resp) => o = Returns(EmptyDict)
            /\ (o.kind = "return" /\ DOMAIN o.value = {}) => ReportsNoData(resp)
            /\ HardCondition(resp) => o.kind = "HTTPException"
            /\ (resp.kind = "response" /\ resp.status_code >= 400) =>
                   o.status_code = resp.status_code

\* the scraper was given a 2xx response whose body parses
ScrapedPage ==
    /\ Scraped
    /\ page_response.kind = "response"
    /\ page_response.status_code < 400
    /\ page_response.body.kind = "page"

\* what the scraper returns for a page made of sections p and c
ScrapeOf(p, c) ==
    scrape_performance_and_competitors(scrape_result.symbol, HttpResponse(200, Page(p, c)))

\* C14: for every page, a Performance or Competitors section that is absent (no
\* header, or no table after it) raises nothing and empties that section's result
\* only; the other section's result is what it is when both sections are there.
C14_AbsentSectionIsEmpty ==
    ScrapedPage =>
        LET p == page_response.body.performance
            c == page_response.body.competitors
            o == scrape_result.ret
        IN  /\ o.kind = "return"
            /\ DOMAIN o.value = {"performance_data", "competitors"}
            /\ p.found # "table" => o.value.performance_data = PerformanceData_init
            /\ c.found # "tbody" => o.value.competitors = <<>>
            /\ \A other \in SomePerfSections :
                   ScrapeOf(other, c).value.competitors = o.value.competitors
            /\ \A other \in SomeCompSections :
                   ScrapeOf(p, other).value.performance_data = o.value.performance_data

C14_Witness ==
    /\ ScrapedPage
    /\ page_response.body.performance.found = "none"
    /\ page_response.body.competitors.found = "tbody"
    /\ scrape_result.ret.value.performance_data = PerformanceData_init
    /\ scrape_result.ret.value.competitors =
           << Competitor("Sony Group", "JPY", [m |-> 3, e |-> 11]) >>

\* the metrics in the order of the elif chain, with their fragments
Fragments ==
    << [metric |-> "five_days", fragment |-> <<"5", "_", "d", "a", "y">>],
       [metric |-> "one_month", fragment |-> <<"1", "_", "m", "o", "n", "t", "h">>],
       [metric |-> "three_months", fragment |-> <<"3", "_", "m", "o", "n", "t", "h">>],
       [metric |-> "year_to_date", fragment |-> <<"y", "t", "d">>],
       [metric |-> "one_year", fragment |-> <<"1", "_", "y", "e", "a", "r">>] >>

\* the metric a normalized label stands for: the first whose fragment it contains
MetricOf(label) ==
    LET hits == { i \in 1..Len(Fragments) : Contains(label, Fragments[i].fragment) }
    IN  IF hits = {} THEN "none"
        ELSE Fragments[CHOOSE i \in hits : \A j \in hits : i <= j].metric

\* the number in the value element of a two-cell row, None when there is none
RowValue(row) ==
    IF Len(row) = 2 /\ row[2].value_tag # None
    THEN Float(SelectSeq(Strip(row[2].value_tag[1]), LAMBDA ch : ch # "%"))
    ELSE None

\* the label with every whitespace character, hyphen and period made an underscore
AllToUnderscore(text) ==
    LET t == Lower(Strip(text))
    IN  [i \in 1..Len(t) |-> IF t[i] \in {" ", "\t", "\n", "-", "."} THEN "_" ELSE t[i]]

\* the label with every space and hyphen made an underscore and every period deleted
SpaceHyphenToUnderscore(text) ==
    LET t == SelectSeq(Lower(Strip(text)), LAMBDA ch : ch # ".")
    IN  [i \in 1..Len(t) |-> IF t[i] \in {" ", "-"} THEN "_" ELSE t[i]]

\* C15 (as stated): the label of each two-cell row is lowercased and every
\* whitespace character, hyphen and period in it becomes an underscore; the row's
\* value goes to the metric whose fragment the label contains; a row whose value
\* does not parse leaves its metric as it was and the other rows are extracted.
C15_LabelsAllToUnderscore ==
    (ScrapedPage /\ page_response.body.performance.found = "table") =>
        LET rows == page_response.body.performance.rows
            pd == scrape_result.ret.value.performance_data
        IN  \A k \in 1..Len(Fragments) :
                LET from == { i \in 1..Len(rows) :
                                /\ RowValue(rows[i]) # None
                                /\ MetricOf(AllToUnderscore(rows[i][1].text))
                                       = Fragments[k].metric }
                IN  pd[Fragments[k].metric] =
                        IF from = {} THEN None
                        ELSE RowValue(rows[CHOOSE i \in from : \A j \in from : j <= i])

\* C15 (amended): the label of each two-cell row is lowercased, every space and
\* hyphen in it becomes an underscore and every period is deleted; the row's value
\* goes to the first metric (5_day, 1_month, 3_month, ytd, 1_year) whose fragment
\* the label contains; a row whose value does not parse leaves its metric as it
\* was and the other rows are extracted.
C15_LabelNormalization ==
    (ScrapedPage /\ page_response.body.performance.found = "table") =>
        LET rows == page_response.body.performance.rows
            pd == scrape_result.ret.value.performance_data
        IN  \A k \in 1..Len(Fragments) :
                LET from == { i \in 1..Len(rows) :
                                /\ RowValue(rows[i]) # None
                                /\ MetricOf(SpaceHyphenToUnderscore(rows[i][1].text))
                                       = Fragments[k].metric }
                IN  pd[Fragments[k].metric] =
                        IF from = {} THEN None
                        ELSE RowValue(rows[CHOOSE i \in from : \A j \in from : j <= i])

C15_Witness ==
    /\ ScrapedPage
    /\ page_response.body.performance.found = "table"
    /\ Len(page_response.body.performance.rows) = 2
    /\ \A i \in 1..2 : Len(page_response.body.performance.rows[i]) = 2
    /\ page_response.body.performance.rows[1][1].text = <<"5", " ", "D", "a", "y">>
    /\ page_response.body.performance.rows[1][2].value_tag = Some(<<"N", "/", "A">>)
    /\ page_response.body.performance.rows[2][1].text = <<"Y", ".", "T", ".", "D">>
    /\ scrape_result.ret.value.performance_data =
           [PerformanceData_init EXCEPT !.year_to_date = Some([m |-> -34, e |-> -1])]

\* a body row that has both cells and a market cap that parses
Qualifies(row) ==
    /\ row.name_tag # None
    /\ row.market_cap_tag # None
    /\ parse_market_cap_string(Strip(row.market_cap_tag[1])) # None

\* C16: the competitors returned are exactly the body rows that have a name cell and
\* a market-cap cell whose shorthand parses, in document order, duplicates kept; a
\* row whose shorthand does not parse is dropped, the rows around it are kept, and
\* nothing is raised.
C16_CompetitorsAreQualifyingRows ==
    (ScrapedPage /\ page_response.body.competitors.found = "tbody") =>
        LET kept == SelectSeq(page_response.body.competitors.rows, Qualifies)
            o == scrape_result.ret
        IN  /\ o.kind = "return"
            /\ Len(o.value.competitors) = Len(kept)
            /\ \A i \in 1..Len(kept) :
                   /\ o.value.competitors[i].name = kept[i].name_tag[1]
                   /\ Some(o.value.competitors[i].market_cap.value) =
                          parse_market_cap_string(Strip(kept[i].market_cap_tag[1]))

C16_Witness ==
    /\ ScrapedPage
    /\ page_response.body.competitors.found = "tbody"
    /\ Len(page_response.body.competitors.rows) = 2
    /\ page_response.body.competitors.rows[1].market_cap_tag = Some(<<"N", "/", "A">>)
    /\ scrape_result.ret.value.competitors =
           << Competitor("Microsoft Corp.", "KRW", [m |-> 456, e |-> 5]) >>

\* the step in which request r stores and returns the Stock it built
Stores(r) == pc[r] = "scrape" /\ pc'[r] = "done" /\ outcome'[r].kind = "return"

\* C17: reading never extends an entry's lifetime. A request that finds a live
\* entry leaves the cache, expiry included, as it was; an entry changes only when a
\* request stores its result, with expiry = that moment + TTL; so a result stored at
\* t is served only at times before t + TTL, whatever the hits in between, and a
\* request at or after t + TTL drops the entry and asks the sources afresh.
C17_ReadNeverExtendsLifetime ==
    [][/\ \A r \in Handlers, s \in Symbols :
             Receives(r, s) =>
                 /\ Live(cache, Upper(s), now) => (cache' = cache /\ pc'[r] = "done")
                 /\ pc'[r] = "done" => Live(cache, Upper(s), now)
                 /\ (Upper(s) \in DOMAIN cache /\ now >= cache[Upper(s)].expiry) =>
                        /\ pc'[r] = "quote"
                        /\ calls'[r] = << Call("get_daily_open_close",
                                                <<Upper(s), today_str(now)>>) >>
                        /\ Upper(s) \notin DOMAIN cache'
       /\ \A k \in DOMAIN cache' :
             (k \notin DOMAIN cache \/ cache'[k] # cache[k]) =>
                 /\ \E r \in Handlers : Stores(r) /\ Key(r) = k
                 /\ cache'[k].expiry = now + ttl_seconds]_vars

C17_Witness ==
    \E r1, r2 \in Handlers :
        /\ Hit(r2)
        /\ pc[r1] = "quote"
        /\ Key(r1) = Key(r2)
        /\ Key(r1) \in touched[r1]
        /\ Key(r1) \notin DOMAIN cache
        /\ now = StartTime + ttl_seconds

\* C18: with requests suspended only at their three calls, a cache entry is always
\* the whole Stock that one request built from its own fetches and returned, under
\* that request's symbol: the request that stores last replaces the entry, value
\* and expiry; requests that miss are not coalesced, each one starts its own
\* fetches even while another request for the same symbol is in flight.
C18_EntryIsOneRequestsStock ==
    [][/\ \A k \in DOMAIN cache' :
             (k \notin DOMAIN cache \/ cache'[k] # cache[k]) =>
                 \E r \in Handlers :
                     /\ Stores(r)
                     /\ Key(r) = k
                     /\ cache'[k] = [value |-> Stock(frame'[r], now),
                                     expiry |-> now + ttl_seconds]
                     /\ outcome'[r].value = cache'[k].value
       /\ \A r \in Handlers, s \in Symbols :
             (Receives(r, s) /\ ~Live(cache, Upper(s), now)) =>
                 /\ pc'[r] = "quote"
                 /\ calls'[r] = << Call("get_daily_open_close",
                                         <<Upper(s), today_str(now)>>) >>
       /\ \A r \in Handlers : Stores(r) => calls'[r] = FullLog(r)]_vars

C18_Witness ==
    \E r1, r2 \in Handlers :
        /\ Missed(r1)
        /\ Missed(r2)
        /\ Key(r1) = Key(r2)
        /\ outcome[r1].value.stock_values # outcome[r2].value.stock_values
        /\ Key(r1) \in DOMAIN cache
        /\ cache[Key(r1)].value = outcome[r2].value

\* the statuses that do not mention the scrape
StatusesWithoutScrape ==
    { "Success" \o q \o n :
          q \in {"", " (Polygon daily data not available)"},
          n \in {"", " (Company name not found)"} }

\* what the scraper returns when it extracted nothing
NothingScraped == [performance_data |-> PerformanceData_init, competitors |-> <<>>]

\* C19: a scrape that raises nothing returns a record with a performance part and a
\* competitors part, also for a page with neither section; so with the scraper
\* itself answering, no result of get_stock_data has the phrase
\* " (MarketWatch data not available)" in its status, and a page that gave nothing
\* leaves empty metrics and no competitors under a status that does not mention
\* the scrape.
C19_ScrapePhraseNeverAppended ==
    \A r \in Handlers :
        /\ (Len(heard[r]) = 3 /\ heard[r][3].kind = "return") =>
               DOMAIN heard[r][3].value = {"performance_data", "competitors"}
        /\ (pc[r] = "scrape" /\ frame[r].symbol_upper # <<>>) =>
               scrape_performance_and_competitors(frame[r].symbol_upper,
                                                  HttpResponse(200, ErrorPage))
                   = Returns(NothingScraped)
        /\ Missed(r) =>
               /\ outcome[r].value.status \in StatusesWithoutScrape
               /\ heard[r][3].value = NothingScraped =>
                      /\ outcome[r].value.performance_data = PerformanceData_init
                      /\ outcome[r].value.competitors = <<>>

C19_Witness ==
    \E r \in Handlers :
        /\ Missed(r)
        /\ heard[r][3].value = NothingScraped
        /\ outcome[r].value.status = "Success"
        /\ outcome[r].value.competitors = <<>>

====
